---- MODULE Spec2Model ----
(***************************************************************************)
(* Model of jira_to_slack_report.py: one run of main().                    *)
(*                                                                         *)
(* Strings that the program formats, joins or measures are sequences of    *)
(* one-character strings, so that len(), f-string formatting and           *)
(* "\n".join() are computed rather than assumed.  The character U+2014     *)
(* (em dash) of the record line is written "emdash": one element, as it is *)
(* one code point for Python's len().                                      *)
(*                                                                         *)
(* JSON values are tagged records: [t |-> "null"], [t |-> "str", v |-> s], *)
(* [t |-> "obj", v |-> f] with f a function from the keys present.         *)
(***************************************************************************)
EXTENDS Integers, Sequences, FiniteSets, TLC

\* ------------------------------------------------------------------ bounds
MaxTitleLen == 2
MaxSourceLen == 2
MaxIssues == 2
SmallChunkLimit == 20
MidChunkLimit == 64

\* ------------------------------------------------------- program constants
DefaultChunkLimit == 39000

DefaultTitle == <<"J", "i", "r", "a", " ", "R", "e", "p", "o", "r", "t">>
DemoKey == <<"D", "E", "M", "O", "-", "1">>
DemoSummary == <<"E", "x", "a", "m", "p", "l", "e", " ", "i", "s", "s", "u", "e">>
DemoStatus == <<"T", "o", " ", "D", "o">>
DemoAssignee == <<"A", "l", "i", "c", "e">>
LitDash == <<"-", " ">>
LitSep == <<" ", "emdash", " ">>
LitStatus == <<" ", "(", "S", "t", "a", "t", "u", "s", ":", " ">>
LitAssignee == <<",", " ", "A", "s", "s", "i", "g", "n", "e", "e", ":", " ">>
LitClose == <<")">>
NoneText == <<"N", "o", "n", "e">>
SuccessLine == "Posted Jira report to Slack."
MissingLine == "Missing required environment variables"

\* ----------------------------------------------------------- JSON values
Null == [t |-> "null"]
Absent == [t |-> "absent"]
JStr(s) == [t |-> "str", v |-> s]
JObj(f) == [t |-> "obj", v |-> f]

NameObj(field, s) == JObj([k \in {field} |-> JStr(s)])
EmptyObj == JObj([k \in {} |-> Null])

\* The "fields" dict of a record; a value given as Absent leaves its key out.
MkFields(su, st, asg) ==
    LET all == [k \in {"summary", "status", "assignee"} |->
                    CASE k = "summary" -> su
                      [] k = "status" -> st
                      [] k = "assignee" -> asg]
    IN  [k \in {x \in DOMAIN all : all[x].t # "absent"} |-> all[k]]

MkIssue(key, su, st, asg) == [key |-> key, fields |-> MkFields(su, st, asg)]

\* The literal of line 72.
DemoIssue ==
    MkIssue(DemoKey, JStr(DemoSummary), NameObj("name", DemoStatus),
            NameObj("displayName", DemoAssignee))

\* ------------------------------------------------------------ environment
Required == {"JIRA_BASE_URL", "JIRA_EMAIL", "JIRA_API_TOKEN", "JIRA_JQL",
             "SLACK_BOT_TOKEN", "SLACK_CHANNEL_ID"}

\* os.getenv of a required name: None (unset), "" (set, empty) or a value.
EnvValues == {"None", "", "v"}

\* env(name): truthiness of what os.getenv returned.
Truthy(v) == v # "None" /\ v # ""

AllRequiredButChannel(e) == \A n \in Required \ {"SLACK_CHANNEL_ID"} : Truthy(e[n])

\* all([base, email, token, jql, slack_token, channel_id])
AllRequired(e) == \A n \in Required : Truthy(e[n])

\* ------------------------------------------------------------- rendering
RECURSIVE SeqsUpTo(_, _)
SeqsUpTo(S, n) ==
    IF n = 0 THEN {<<>>}
    ELSE LET shorter == SeqsUpTo(S, n - 1)
         IN  shorter \cup {Append(s, x) : s \in shorter, x \in S}

\* str(v) as an f-string interpolates it: None prints as "None".
Str(v) == IF v.t = "str" THEN v.v ELSE NoneText

\* d[k] on a JSON value: defined only on a dict holding k
\* (KeyError when k is missing, TypeError when d is None).
CanIndex(d, k) == d.t = "obj" /\ k \in DOMAIN d.v

\* Line 76 evaluates without raising.
LineOk(iss) ==
    /\ "summary" \in DOMAIN iss.fields
    /\ "status" \in DOMAIN iss.fields
    /\ CanIndex(iss.fields["status"], "name")
    /\ "assignee" \in DOMAIN iss.fields
    /\ CanIndex(iss.fields["assignee"], "displayName")

\* The f-string of line 76.
IssueLine(iss) ==
    LitDash \o iss.key \o LitSep \o Str(iss.fields["summary"])
      \o LitStatus \o Str(iss.fields["status"].v["name"])
      \o LitAssignee \o Str(iss.fields["assignee"].v["displayName"])
      \o LitClose

\* f"*{title}*"
TitleLine(t) == <<"*">> \o t \o <<"*">>

JoinNoSeparator(ls) ==
    LET RECURSIVE cat(_)
        cat(i) == IF i > Len(ls) THEN <<>> ELSE ls[i] \o cat(i + 1)
    IN  cat(1)

\* "\n".join(lines)
JoinLines(ls) ==
    LET RECURSIVE cat(_)
        cat(i) == IF i > Len(ls) THEN <<>>
                  ELSE IF i = Len(ls) THEN ls[i]
                  ELSE ls[i] \o <<"\n">> \o cat(i + 1)
    IN  cat(1)

\* The lines built by the loop of lines 74-76 before issue number n raises
\* (all of them when none does).
FirstBad(iss) ==
    IF \A i \in 1..Len(iss) : LineOk(iss[i]) THEN Len(iss) + 1
    ELSE CHOOSE i \in 1..Len(iss) :
            ~LineOk(iss[i]) /\ \A j \in 1..(i - 1) : LineOk(iss[j])

BuildLines(t, iss) ==
    <<TitleLine(t)>> \o [i \in 1..(FirstBad(iss) - 1) |-> IssueLine(iss[i])]

\* ------------------------------------------------------------- Slack call
\* What chat.postMessage can answer: a JSON body with ok true, with ok false,
\* without ok, or a body that is not JSON.  A request that raises (timeout,
\* connection error) ends the run the same way as the last one: an uncaught
\* exception after the request was attempted.
SlackResponses ==
    {[json |-> TRUE, ok |-> "true"], [json |-> TRUE, ok |-> "false"],
     [json |-> TRUE, ok |-> "missing"], [json |-> FALSE, ok |-> "missing"]}

\* Slack accepted the message: it answered a JSON body with ok true.
Accepted(r) == r.json /\ r.ok = "true"

DataOkLenient(r) == r.ok # "false"

\* Lines 53-54: data = r.json() if JSON else {"ok": False, ...}; data.get("ok")
DataOk(r) == r.json /\ r.ok = "true"

PayloadTruncated(ch, txt) == [channel |-> ch, text |-> SubSeq(txt, 1, Len(txt) - 1)]

\* Line 51: the payload handed to requests.post.
Payload(ch, txt) == [channel |-> ch, text |-> txt]

\* -------------------------------------------------------------------- state
VARIABLES
    environ,      \* required variables of the process environment
    titleEnv,     \* TITLE: Absent (unset) or JStr(s)
    chunkLimit,   \* SLACK_CHUNK_LIMIT, or its documented default
    singleMsg,    \* SLACK_SINGLE_MESSAGE parsed as a boolean
    jiraSource,   \* the records matching JIRA_JQL on the Jira side
    pc,           \* position in main()
    issues,       \* local of main()
    lines,        \* local of main()
    text,         \* local of main()
    netCalls,     \* outbound HTTP requests made so far, in order
    stdout,
    stderr,
    exitCode      \* -1 while running

vars == <<environ, titleEnv, chunkLimit, singleMsg, jiraSource, pc, issues,
          lines, text, netCalls, stdout, stderr, exitCode>>

inputs == <<environ, titleEnv, chunkLimit, singleMsg, jiraSource>>

TitleChars == {"x"}
Titles == {Absent} \cup {JStr(s) : s \in SeqsUpTo(TitleChars, MaxTitleLen)}

\* env("TITLE", "Jira Report")
title == IF titleEnv.t = "absent" THEN DefaultTitle ELSE titleEnv.v

ChunkLimits == {DefaultChunkLimit, SmallChunkLimit, MidChunkLimit}

\* Records a Jira search can return: sparse, nested JSON.
SourceKeys == {<<"A">>, <<"B">>}
SourceIssues ==
    {MkIssue(k, JStr(<<"s">>), NameObj("name", <<"o">>),
             NameObj("displayName", <<"u">>)) : k \in SourceKeys}
JiraSources == SeqsUpTo(SourceIssues, MaxSourceLen)

SparseIssues ==
    {MkIssue(k, su, st, asg) :
        k \in SourceKeys,
        su \in {Absent, Null, JStr(<<"s">>)},
        st \in {Absent, Null, EmptyObj, NameObj("name", <<"o">>)},
        asg \in {Null, NameObj("displayName", <<"u">>)}}
IssueLists == SeqsUpTo(SparseIssues, MaxIssues)

Init ==
    /\ environ \in [Required -> EnvValues]
    /\ titleEnv \in Titles
    /\ chunkLimit \in ChunkLimits
    /\ singleMsg \in BOOLEAN
    /\ jiraSource \in JiraSources
    /\ pc = "start"
    /\ issues = <<>>
    /\ lines = <<>>
    /\ text = <<>>
    /\ netCalls = <<>>
    /\ stdout = <<>>
    /\ stderr = <<>>
    /\ exitCode = -1

\* ------------------------------------------------------------------ actions
\* Lines 58-68: read the environment, exit 1 when a required value is missing.
CheckConfig ==
    /\ pc = "start"
    /\ IF AllRequired(environ)
       THEN /\ pc' = "fetch"
            /\ UNCHANGED <<stderr, exitCode>>
       ELSE /\ stderr' = Append(stderr, MissingLine)
            /\ exitCode' = 1
            /\ pc' = "exited"
    /\ UNCHANGED <<inputs, issues, lines, text, netCalls, stdout>>

\* Lines 70-72: the fetch is a literal; no request is made.
Fetch ==
    /\ pc = "fetch"
    /\ issues' = <<DemoIssue>>
    /\ pc' = "render"
    /\ UNCHANGED <<inputs, lines, text, netCalls, stdout, stderr, exitCode>>

\* Lines 74-78: build the lines and join them; a subscript that raises
\* (KeyError, TypeError) ends the process with a traceback and status 1.
Render ==
    /\ pc = "render"
    /\ lines' = BuildLines(title, issues)
    /\ IF FirstBad(issues) > Len(issues)
       THEN /\ text' = JoinLines(lines')
            /\ pc' = "post"
            /\ UNCHANGED <<stderr, exitCode>>
       ELSE /\ text' = text
            /\ stderr' = Append(stderr, "Traceback")
            /\ exitCode' = 1
            /\ pc' = "exited"
    /\ UNCHANGED <<inputs, issues, netCalls, stdout>>

PostRetry ==
    /\ pc = "post"
    /\ Len(netCalls) < 3
    /\ \E r \in SlackResponses :
        /\ netCalls' = Append(netCalls,
              [op |-> "deliver", payload |-> Payload(environ["SLACK_CHANNEL_ID"], text),
               delivered |-> Accepted(r)])
        /\ IF DataOk(r)
           THEN pc' = "print" /\ UNCHANGED <<stderr, exitCode>>
           ELSE pc' = "post" /\ UNCHANGED <<stderr, exitCode>>
    /\ UNCHANGED <<inputs, issues, lines, text, stdout>>

\* Line 79 and slack_post_message (48-55): one request; RuntimeError unless
\* the answer is JSON with a true "ok".
Post ==
    /\ pc = "post"
    /\ \E r \in SlackResponses :
        /\ netCalls' = Append(netCalls,
              [op |-> "deliver", payload |-> Payload(environ["SLACK_CHANNEL_ID"], text),
               delivered |-> Accepted(r)])
        /\ IF DataOk(r)
           THEN /\ pc' = "print"
                /\ UNCHANGED <<stderr, exitCode>>
           ELSE /\ stderr' = Append(stderr, "Traceback")
                /\ exitCode' = 1
                /\ pc' = "exited"
    /\ UNCHANGED <<inputs, issues, lines, text, stdout>>

\* Line 80, then main() returns and the interpreter exits with status 0.
PrintSuccess ==
    /\ pc = "print"
    /\ stdout' = Append(stdout, SuccessLine)
    /\ exitCode' = 0
    /\ pc' = "done"
    /\ UNCHANGED <<inputs, issues, lines, text, netCalls, stderr>>

Next == CheckConfig \/ Fetch \/ Render \/ Post \/ PrintSuccess

Spec == Init /\ [][Next]_vars

\* The rendering and delivery steps (lines 74-80) applied to any list of
\* records a Jira search can return, configuration complete.
InitRender ==
    /\ environ = [n \in Required |-> "v"]
    /\ titleEnv = Absent
    /\ chunkLimit = DefaultChunkLimit
    /\ singleMsg = FALSE
    /\ issues \in IssueLists
    /\ jiraSource = issues
    /\ pc = "render"
    /\ lines = <<>>
    /\ text = <<>>
    /\ netCalls = <<>>
    /\ stdout = <<>>
    /\ stderr = <<>>
    /\ exitCode = -1

NextRender == Render \/ Post \/ PrintSuccess

SpecRender == InitRender /\ [][NextRender]_vars

\* ------------------------------------------------------------------ claims
Range(q) == {q[i] : i \in 1..Len(q)}

Terminated == pc \in {"done", "exited"}

SomeRequiredMissing == \E n \in Required : environ[n] \in {"None", ""}

Delivers == {i \in 1..Len(netCalls) : netCalls[i].op = "deliver"}

AnyDeliveryFailed == \E i \in Delivers : ~netCalls[i].delivered

ChunkTexts == [i \in 1..Len(netCalls) |-> netCalls[i].payload.text]

\* C1: when a required configuration value is unset or empty, no outbound
\* call is ever made, and once main() has passed its check the run has ended
\* with a non-zero exit status.
C1_ConfigFailFast ==
    SomeRequiredMissing =>
        /\ netCalls = <<>>
        /\ pc \in {"start", "exited"}
        /\ pc = "exited" => exitCode > 0

C1_Witness ==
    /\ pc = "exited"
    /\ exitCode = 1
    /\ environ["SLACK_CHANNEL_ID"] = ""
    /\ \A n \in Required \ {"SLACK_CHANNEL_ID"} : environ[n] = "v"

\* C2: a finished run has exit status 0 exactly when a message was sent and
\* every send was accepted by Slack; a send that Slack did not accept (ok
\* false or missing, or a non-JSON body) leaves a non-zero status and the
\* success line unprinted.
C2_ExitZeroIffDelivered ==
    /\ Terminated =>
          ((exitCode = 0) <=>
              (Delivers # {} /\ \A i \in Delivers : netCalls[i].delivered))
    /\ AnyDeliveryFailed => (SuccessLine \notin Range(stdout) /\ exitCode # 0)
    /\ SuccessLine \in Range(stdout) => exitCode = 0

C2_Witness ==
    /\ pc = "exited"
    /\ Len(netCalls) = 1
    /\ ~netCalls[1].delivered
    /\ exitCode = 1
    /\ stdout = <<>>

\* C3: every message text handed to the deliver call is at most the
\* configured chunk limit long.
C3_ChunkCap ==
    \A i \in Delivers : Len(netCalls[i].payload.text) <= chunkLimit

\* C4: after the fetch step the fetched records are exactly the records of
\* the source, in the source's order.
C4_FetchComplete ==
    pc \in {"render", "post", "print", "done"} => issues = jiraSource

\* C5: the texts of the messages sent, concatenated in order, are the full
\* report text: the title line and one line per record joined by newlines.
C5_ChunksReproduceReport ==
    netCalls # <<>> =>
        JoinNoSeparator(ChunkTexts)
            = JoinLines(<<TitleLine(title)>>
                          \o [i \in 1..Len(issues) |-> IssueLine(issues[i])])

C5_Witness ==
    /\ pc = "done"
    /\ Len(netCalls) = 1
    /\ Len(netCalls[1].payload.text) > Len(TitleLine(title))

C8_EmptyResultTitleOnly ==
    (jiraSource = <<>> /\ pc = "done") =>
        /\ text = TitleLine(title)
        /\ Len(netCalls) = 1
        /\ netCalls[1].payload.text = TitleLine(title)
        /\ exitCode = 0

C10_SingleMessagePreference ==
    (singleMsg /\ pc = "done") =>
        IF Len(text) <= chunkLimit
        THEN Len(netCalls) = 1 /\ netCalls[1].payload.text = text
        ELSE Len(netCalls) > 1

====
